---- MODULE Spec2Model ----
(***************************************************************************)
(* A model of lib/Models/SdmxJsonCatalogItem.js: the decoding of an        *)
(* SDMX-JSON dimension catalogue, the enumeration of the dimension-value   *)
(* combinations, the synthesis of the region, value and total columns, and *)
(* the reaction of the catalog item to a change of the active concepts.    *)
(*                                                                         *)
(* JavaScript arrays are modelled as sequences: the element at JavaScript  *)
(* index i is the element i + 1 of the sequence.  keyPositions and the     *)
(* value indices keep their JavaScript (0-based) values.                   *)
(***************************************************************************)
EXTENDS Integers, Sequences, FiniteSets, TLC

\* The largest number of values of one dimension of a catalogue.
MaxValues == 2
\* The largest number of fetches issued in one behaviour.
MaxFetches == 3
\* The largest number of toggles of a selection item in one behaviour.
MaxToggles == 2

\* JavaScript's undefined, where an index is expected.
Undefined == -1
\* A null cell of a column (the observations are positive numbers).
Null == -2
\* The name of an array slot that was never assigned.
UndefinedName == "<undefined>"

(***************************************************************************)
(* Strings.                                                                *)
(***************************************************************************)
RECURSIVE JoinFrom(_, _, _)
JoinFrom(strs, sep, i) ==
    IF i > Len(strs) THEN ""
    ELSE IF i = Len(strs) THEN strs[i]
    ELSE strs[i] \o sep \o JoinFrom(strs, sep, i + 1)

\* Array.prototype.join over an array of strings.
Join(strs, sep) == JoinFrom(strs, sep, 1)

\* Array.prototype.join over an array of numbers.
JoinNumbers(nums, sep) == Join([i \in 1..Len(nums) |-> ToString(nums[i])], sep)

\* Array.prototype.filter: keep[i] is the callback's verdict on arr[i].
RECURSIVE FilterFrom(_, _, _)
FilterFrom(arr, keep, i) ==
    IF i > Len(arr) THEN <<>>
    ELSE (IF keep[i] THEN <<arr[i]>> ELSE <<>>) \o FilterFrom(arr, keep, i + 1)

Filter(arr, keep) == FilterFrom(arr, keep, 1)

\* arr[index] = value on a JavaScript array: a write past the end grows the
\* array, and the slots in between hold `hole`.
SetAt(arr, index, value, hole) ==
    IF index < Len(arr)
    THEN [arr EXCEPT ![index + 1] = value]
    ELSE arr \o [j \in 1..(index - Len(arr)) |-> hole] \o <<value>>

\* The first JavaScript index of value in arr, or -1.
IndexOf(arr, value) ==
    IF \E i \in 1..Len(arr) : arr[i] = value
    THEN (CHOOSE i \in 1..Len(arr) :
            arr[i] = value /\ \A j \in 1..(i - 1) : arr[j] # value) - 1
    ELSE -1

(***************************************************************************)
(* lib/Core/arrayProduct: the cartesian product of the pools, in           *)
(* lexicographic order, the first pool varying slowest.                    *)
(***************************************************************************)
RECURSIVE Flatten(_)
Flatten(arrs) == IF arrs = <<>> THEN <<>> ELSE Head(arrs) \o Flatten(Tail(arrs))

RECURSIVE arrayProductFrom(_, _, _)
arrayProductFrom(pools, i, result) ==
    IF i > Len(pools) THEN result
    ELSE arrayProductFrom(pools, i + 1,
            Flatten([p \in 1..Len(result) |->
                        [m \in 1..Len(pools[i]) |-> Append(result[p], pools[i][m])]]))

arrayProduct(pools) == arrayProductFrom(pools, 1, << <<>> >>)

\* eg. range(5) returns [0, 1, 2, 3, 4].
range(length) == [i \in 1..length |-> i - 1]

(***************************************************************************)
(* The strings of the catalogues, as arrays of characters, for the string  *)
(* operations of getRegionColumnName.                                      *)
(***************************************************************************)
Chars(s) ==
    CASE s = "REGION" -> <<"R", "E", "G", "I", "O", "N">>
      [] s = "REGIONTYPE" -> <<"R", "E", "G", "I", "O", "N", "T", "Y", "P", "E">>
      [] s = "TIME_PERIOD" -> <<"T", "I", "M", "E", "_", "P", "E", "R", "I", "O", "D">>
      [] s = "MEASURE" -> <<"M", "E", "A", "S", "U", "R", "E">>
      [] s = "SEX" -> <<"S", "E", "X">>
      [] s = "R1" -> <<"R", "1">>
      [] s = "R2" -> <<"R", "2">>
      [] s = "R3" -> <<"R", "3">>
      [] s = "R4" -> <<"R", "4">>
      [] s = "LGA_2013" -> <<"L", "G", "A", "_", "2", "0", "1", "3">>
      [] s = "SA4" -> <<"S", "A", "4">>
      [] s = "LGA" -> <<"L", "G", "A">>
      [] s = "STE_AU_2011" -> <<"S", "T", "E", "_", "A", "U", "_", "2", "0", "1", "1">>
      [] s = "BD_2" -> <<"B", "D", "_", "2">>
      [] s = "BD_4" -> <<"B", "D", "_", "4">>
      [] s = "BD_6" -> <<"B", "D", "_", "6">>
      [] s = "BD_8" -> <<"B", "D", "_", "8">>
      [] s = "M" -> <<"M">>
      [] s = "F" -> <<"F">>
      [] s = "P" -> <<"P">>
      [] s = "X" -> <<"X">>
      [] s = "2011" -> <<"2", "0", "1", "1">>
      [] s = "2012" -> <<"2", "0", "1", "2">>
      [] s = "2013" -> <<"2", "0", "1", "3">>
      [] s = "2014" -> <<"2", "0", "1", "4">>

\* String.prototype.toLowerCase, on one character.
LowerCaseChar(c) ==
    CASE c = "A" -> "a" [] c = "B" -> "b" [] c = "C" -> "c" [] c = "D" -> "d"
      [] c = "E" -> "e" [] c = "F" -> "f" [] c = "G" -> "g" [] c = "H" -> "h"
      [] c = "I" -> "i" [] c = "J" -> "j" [] c = "K" -> "k" [] c = "L" -> "l"
      [] c = "M" -> "m" [] c = "N" -> "n" [] c = "O" -> "o" [] c = "P" -> "p"
      [] c = "Q" -> "q" [] c = "R" -> "r" [] c = "S" -> "s" [] c = "T" -> "t"
      [] c = "U" -> "u" [] c = "V" -> "v" [] c = "W" -> "w" [] c = "X" -> "x"
      [] c = "Y" -> "y" [] c = "Z" -> "z" [] OTHER -> c

toLowerCase(chars) == [i \in 1..Len(chars) |-> LowerCaseChar(chars[i])]

\* String.prototype.lastIndexOf of one character (a JavaScript index, or -1).
lastIndexOf(chars, c) ==
    IF \E i \in 1..Len(chars) : chars[i] = c
    THEN (CHOOSE i \in 1..Len(chars) :
            chars[i] = c /\ \A j \in (i + 1)..Len(chars) : chars[j] # c) - 1
    ELSE -1

(***************************************************************************)
(* The dimension catalogues a server may hold.                             *)
(***************************************************************************)
ValueIds(dimensionId) ==
    CASE dimensionId = "REGION" -> <<"R1", "R2", "R3", "R4">>
      [] dimensionId = "REGIONTYPE" -> <<"LGA_2013", "SA4", "LGA", "STE_AU_2011">>
      [] dimensionId = "TIME_PERIOD" -> <<"2011", "2012", "2013", "2014">>
      [] dimensionId = "MEASURE" -> <<"BD_2", "BD_4", "BD_6", "BD_8">>
      [] dimensionId = "SEX" -> <<"M", "F", "P", "X">>

ValueNames(dimensionId) ==
    CASE dimensionId = "REGION" -> <<"One", "Two", "Three", "Four">>
      [] dimensionId = "REGIONTYPE" -> <<"LGA 2013", "SA4", "LGA", "STE 2011">>
      [] dimensionId = "TIME_PERIOD" -> <<"Y2011", "Y2012", "Y2013", "Y2014">>
      [] dimensionId = "MEASURE" -> <<"Births", "Deaths", "Marriages", "Divorces">>
      [] dimensionId = "SEX" -> <<"Males", "Females", "Persons", "Unknown">>

DimensionName(dimensionId) ==
    CASE dimensionId = "REGION" -> "Region"
      [] dimensionId = "REGIONTYPE" -> "Region Type"
      [] dimensionId = "TIME_PERIOD" -> "Time"
      [] dimensionId = "MEASURE" -> "Measure"
      [] dimensionId = "SEX" -> "Sex"

\* One entry of structure.dimensions.series (or .observation).
DimensionDescriptor(dimensionId, keyPosition, count) ==
    [id |-> dimensionId, name |-> DimensionName(dimensionId), keyPosition |-> keyPosition,
     values |-> [i \in 1..count |->
                    [id |-> ValueIds(dimensionId)[i], name |-> ValueNames(dimensionId)[i]]]]

\* The dimension ids of the catalogues, in the order of the source array.
IdSequences ==
    { <<"REGION", "MEASURE">>,
      <<"REGIONTYPE", "MEASURE">>,
      <<"REGION", "REGIONTYPE", "MEASURE">>,
      <<"TIME_PERIOD", "MEASURE", "REGION">>,
      <<"SEX", "REGION", "MEASURE">> }

KeyPositionAssignments(n) == { f \in [1..n -> 0..(n - 1)] : \A i, j \in 1..n : f[i] = f[j] => i = j }

\* Every catalogue: the ids of one sequence, the keyPositions any permutation of
\* 0..N-1, each dimension with one value or with MaxValues values.
Catalogues ==
    UNION { { [i \in 1..Len(ids) |-> DimensionDescriptor(ids[i], keyPositions[i], counts[i])] :
                keyPositions \in KeyPositionAssignments(Len(ids)),
                counts \in [1..Len(ids) -> {1, MaxValues}] } :
            ids \in IdSequences }

\* The entry of the catalogue whose keyPosition is k.
EntryAt(structureSeries, k) ==
    structureSeries[CHOOSE i \in 1..Len(structureSeries) : structureSeries[i].keyPosition = k]

\* The keys of a complete observation map: one value index per dimension, in
\* keyPosition order, joined with ':'.
AllKeyTuples(structureSeries) ==
    arrayProduct([k \in 1..Len(structureSeries) |->
                    range(Len(EntryAt(structureSeries, k - 1).values))])

RECURSIVE SumOf(_)
SumOf(nums) == IF nums = <<>> THEN 0 ELSE Head(nums) + SumOf(Tail(nums))

\* The observation of a key: observations[0][0], a positive number, different
\* for different keys of one catalogue.
RECURSIVE ObservationFrom(_, _)
ObservationFrom(tuple, i) ==
    IF i > Len(tuple) THEN 0
    ELSE tuple[i] + (MaxValues + 1) * ObservationFrom(tuple, i + 1)

Observation(tuple) == 1 + ObservationFrom(tuple, 1)

\* A key a sparse observation map holds.
PresentEven(tuple) == SumOf(tuple) % 2 = 0

\* dataSets[0].series, complete or sparse (the keys of PresentEven only): a
\* function from the key to observations[0][0].
SeriesOf(structureSeries, sparse) ==
    LET tuples == AllKeyTuples(structureSeries)
        kept == { i \in 1..Len(tuples) : ~sparse \/ PresentEven(tuples[i]) }
        keys == { JoinNumbers(tuples[i], ":") : i \in kept }
    IN [key \in keys |->
            Observation(tuples[CHOOSE i \in kept : JoinNumbers(tuples[i], ":") = key])]


\* The observation maps a server may hold for a catalogue: complete, sparse.
SeriesMaps(structureSeries) ==
    { SeriesOf(structureSeries, FALSE),
      SeriesOf(structureSeries, TRUE) }


(***************************************************************************)
(* The decoding of the catalogue.                                          *)
(***************************************************************************)
\* An array slot that was never assigned, in an array of arrays of indices.
HoleValues == <<Undefined>>
\* An array slot that was never assigned, in an array of arrays of strings.
HoleNames == <<UndefinedName>>

UndefinedSpecialDimensions ==
    [isDefined |-> FALSE, regionDimensionIndex |-> Undefined,
     regionTypeDimensionIndex |-> Undefined, regionTypeCount |-> 0,
     timePeriodDimensionIndex |-> Undefined]

RECURSIVE calculateSpecialDimensionsFrom(_, _, _, _)
calculateSpecialDimensionsFrom(item, structureSeries, i, result) ==
    IF i > Len(structureSeries) THEN result
    ELSE calculateSpecialDimensionsFrom(item, structureSeries, i + 1,
            IF structureSeries[i].id = item.regionDimensionId
            THEN [result EXCEPT !.regionDimensionIndex = structureSeries[i].keyPosition]
            ELSE IF structureSeries[i].id = item.regionTypeDimensionId
            THEN [result EXCEPT !.regionTypeDimensionIndex = structureSeries[i].keyPosition,
                                !.regionTypeCount = Len(structureSeries[i].values)]
            ELSE IF structureSeries[i].id = item.timePeriodDimensionId
            THEN [result EXCEPT !.timePeriodDimensionIndex = structureSeries[i].keyPosition]
            ELSE result)

\* calculateSpecialDimensions, not looking for the time-period dimension.
calculateSpecialDimensionsWithoutTime(item, structureSeries) ==
    [calculateSpecialDimensionsFrom(item, structureSeries, 1,
        [UndefinedSpecialDimensions EXCEPT !.isDefined = TRUE])
     EXCEPT !.timePeriodDimensionIndex = Undefined]

calculateSpecialDimensions(item, structureSeries) ==
    calculateSpecialDimensionsFrom(item, structureSeries, 1,
        [UndefinedSpecialDimensions EXCEPT !.isDefined = TRUE])

UndefinedDimensionInfo ==
    [isDefined |-> FALSE, threw |-> FALSE, missing |-> -1, values |-> <<>>, names |-> <<>>,
     ids |-> <<>>, dimensionNames |-> <<>>, dimensionIds |-> <<>>]

\* fillDimensionInfoFrom, writing each entry at its index in the source array.
RECURSIVE fillDimensionInfoByArrayIndex(_, _, _)
fillDimensionInfoByArrayIndex(structureSeries, i, result) ==
    IF i > Len(structureSeries) THEN result
    ELSE LET thisSeries == structureSeries[i]
             k == i - 1
         IN fillDimensionInfoByArrayIndex(structureSeries, i + 1,
              [result EXCEPT
                 !.values = SetAt(@, k, range(Len(thisSeries.values)), HoleValues),
                 !.dimensionNames = SetAt(@, k, thisSeries.name, UndefinedName),
                 !.dimensionIds = SetAt(@, k, thisSeries.id, UndefinedName),
                 !.ids = SetAt(@, k, [v \in 1..Len(thisSeries.values) |-> thisSeries.values[v].id],
                               HoleNames),
                 !.names = SetAt(@, k,
                                 IF Len(thisSeries.values) > 1
                                 THEN [v \in 1..Len(thisSeries.values) |-> thisSeries.values[v].name]
                                 ELSE <<"">>,
                                 HoleNames)])

\* The second loop of calculateShownDimensionNamesAndValues.
RECURSIVE fillDimensionInfoFrom(_, _, _)
fillDimensionInfoFrom(structureSeries, i, result) ==
    IF i > Len(structureSeries) THEN result
    ELSE LET thisSeries == structureSeries[i]
             k == thisSeries.keyPosition
         IN fillDimensionInfoFrom(structureSeries, i + 1,
              [result EXCEPT
                 !.values = SetAt(@, k, range(Len(thisSeries.values)), HoleValues),
                 !.dimensionNames = SetAt(@, k, thisSeries.name, UndefinedName),
                 !.dimensionIds = SetAt(@, k, thisSeries.id, UndefinedName),
                 !.ids = SetAt(@, k, [v \in 1..Len(thisSeries.values) |-> thisSeries.values[v].id],
                               HoleNames),
                 !.names = SetAt(@, k,
                                 IF Len(thisSeries.values) > 1
                                 THEN [v \in 1..Len(thisSeries.values) |-> thisSeries.values[v].name]
                                 ELSE <<"">>,
                                 HoleNames)])

\* removeIndex, hiding nothing.
removeIndexKeepingAll(result, index) == result

\* removeIndex of calculateShownDimensionNamesAndValues: result.values[index] of a
\* slot the array does not have is undefined, and its slice throws.
removeIndex(result, index) ==
    IF index = Undefined \/ result.threw THEN result
    ELSE IF index >= Len(result.values) \/ result.values[index + 1] = HoleValues
    THEN [result EXCEPT !.threw = TRUE]
    ELSE [result EXCEPT
            !.values[index + 1] = SubSeq(@, 1, IF Len(@) < 1 THEN Len(@) ELSE 1),
            !.names = SetAt(@, index, <<"">>, HoleNames)]

\* result.values.indexOf(undefined): indexOf compares with === the slots that
\* were assigned, each of which holds an array, and skips the slots that were
\* never assigned.
indexOfUndefined(arr) ==
    IndexOf([i \in 1..Len(arr) |-> IF arr[i] = HoleValues THEN "hole" ELSE "array"], "undefined")

\* missing is the key position written to the console ('Missing dimension at
\* key position'), or -1 if nothing is written.
calculateShownDimensionNamesAndValues(structureSeries, specialDimensions) ==
    LET n == Len(structureSeries)
        looped == fillDimensionInfoFrom(structureSeries, 1,
                    [isDefined |-> TRUE, threw |-> FALSE, missing |-> -1,
                     values |-> [i \in 1..n |-> <<>>],
                     names |-> [i \in 1..n |-> <<>>],
                     ids |-> <<>>,
                     dimensionNames |-> [i \in 1..n |-> UndefinedName],
                     dimensionIds |-> [i \in 1..n |-> UndefinedName]])
        filled == IF indexOfUndefined(looped.values) >= 0
                  THEN [looped EXCEPT !.missing = indexOfUndefined(looped.values)]
                  ELSE looped
    IN IF specialDimensions.isDefined
       THEN removeIndex(removeIndex(filled, specialDimensions.regionDimensionIndex),
                        specialDimensions.timePeriodDimensionIndex)
       ELSE filled

\* NonTimeDimensions, keeping the time-period dimension.
AllDimensions(item, arr, hole) ==
    Filter(arr, [i \in 1..Len(arr) |-> arr[i] # hole])

\* The filter of getNonTimeDimensionFilter; Array.prototype.filter skips the
\* slots that were never assigned.
NonTimeDimensions(item, arr, hole) ==
    LET Keep(x, dimensionIndex) ==
            x # hole /\ dimensionIndex # item.specialDimensions.timePeriodDimensionIndex
    IN Filter(arr, [i \in 1..Len(arr) |-> Keep(arr[i], i - 1)])

calculateShownDimensionCombinations(item) ==
    [values |-> arrayProduct(NonTimeDimensions(item, item.dimensionInfo.values, HoleValues)),
     names |-> arrayProduct(NonTimeDimensions(item, item.dimensionInfo.names, HoleNames))]

(***************************************************************************)
(* The columns.                                                            *)
(***************************************************************************)
\* TableColumn, active whatever the options.
TableColumnActive(name, values, isActive) == [name |-> name, values |-> values, isActive |-> TRUE]

TableColumn(name, values, isActive) == [name |-> name, values |-> values, isActive |-> isActive]

\* getRegionColumnName, putting '_code' at the first underscore of the id.
getRegionColumnNameAtFirst(regionTypeId) ==
    LET lowerCaseId == toLowerCase(Chars(regionTypeId))
        underscores == { i \in 1..Len(lowerCaseId) : lowerCaseId[i] = "_" }
        underscoreIndex ==
            IF underscores = {} THEN -1
            ELSE (CHOOSE i \in underscores : \A j \in underscores : i <= j) - 1
    IN IF underscoreIndex >= 0
       THEN Join(SubSeq(lowerCaseId, 1, underscoreIndex), "") \o "_code"
            \o Join(SubSeq(lowerCaseId, underscoreIndex + 1, Len(lowerCaseId)), "")
       ELSE Join(lowerCaseId, "") \o "_code"

getRegionColumnName(regionTypeId) ==
    LET lowerCaseId == toLowerCase(Chars(regionTypeId))
        underscoreIndex == lastIndexOf(lowerCaseId, "_")
    IN IF underscoreIndex >= 0
       THEN Join(SubSeq(lowerCaseId, 1, underscoreIndex), "") \o "_code"
            \o Join(SubSeq(lowerCaseId, underscoreIndex + 1, Len(lowerCaseId)), "")
       ELSE Join(lowerCaseId, "") \o "_code"

\* structureSeries[index] is an entry of the array: the JavaScript index is in it.
HasEntry(structureSeries, index) == index >= 0 /\ index < Len(structureSeries)

\* [threw, value]: the id getRegionTypeId returns; reading values[0].id of an
\* entry the array does not have, or of an entry without values, throws.
getRegionTypeId(item, structureSeries) ==
    LET specialDimensions == item.specialDimensions
    IN IF specialDimensions.regionTypeDimensionIndex # Undefined
       THEN IF HasEntry(structureSeries, specialDimensions.regionTypeDimensionIndex)
               /\ Len(structureSeries[specialDimensions.regionTypeDimensionIndex + 1].values) > 0
            THEN [threw |-> FALSE,
                  value |-> structureSeries[specialDimensions.regionTypeDimensionIndex + 1].values[1].id]
            ELSE [threw |-> TRUE, value |-> UndefinedName]
       ELSE IF ~HasEntry(structureSeries, specialDimensions.regionDimensionIndex)
            THEN [threw |-> TRUE, value |-> UndefinedName]
            ELSE IF item.regionType # UndefinedName
                 THEN [threw |-> FALSE, value |-> item.regionType]
                 ELSE [threw |-> FALSE,
                       value |-> structureSeries[specialDimensions.regionDimensionIndex + 1].id]

\* [threw, column]
buildRegionColumn(item, structureSeries) ==
    LET specialDimensions == item.specialDimensions
        regionTypeId == getRegionTypeId(item, structureSeries)
    IN IF ~HasEntry(structureSeries, specialDimensions.regionDimensionIndex) \/ regionTypeId.threw
       THEN [threw |-> TRUE, column |-> TableColumn(UndefinedName, <<>>, FALSE)]
       ELSE LET regionValues == structureSeries[specialDimensions.regionDimensionIndex + 1].values
                regions == [i \in 1..Len(regionValues) |-> regionValues[i].id]
            IN [threw |-> FALSE,
                column |-> TableColumn(getRegionColumnName(regionTypeId.value), regions, FALSE)]

\* The key buildValueColumns looks up for a combination and a region index:
\* dimensionIndices[regionDimensionIndex] = regionIndex, then join(':').  An
\* array slot that was never assigned joins as the empty string.
LookupKey(dimensionIndices, regionDimensionIndex, regionIndex) ==
    Join(SetAt([i \in 1..Len(dimensionIndices) |-> ToString(dimensionIndices[i])],
               regionDimensionIndex, ToString(regionIndex), ""), ":")

\* [threw, columns]
buildValueColumns(shownDimensionCombinations, structureSeries, series, specialDimensions) ==
    LET uniqueValue == Len(shownDimensionCombinations.values) <= 1
        NonBlank(names) == [i \in 1..Len(names) |-> names[i] # ""]
    IN IF Len(shownDimensionCombinations.values) > 0
          /\ ~HasEntry(structureSeries, specialDimensions.regionDimensionIndex)
       THEN [threw |-> TRUE, columns |-> <<>>]
       ELSE [threw |-> FALSE,
             columns |->
               [combinationIndex \in 1..Len(shownDimensionCombinations.values) |->
                  LET dimensionIndices == shownDimensionCombinations.values[combinationIndex]
                      dimensionName ==
                          IF uniqueValue THEN "Value"
                          ELSE Join(Filter(shownDimensionCombinations.names[combinationIndex],
                                           NonBlank(shownDimensionCombinations.names[combinationIndex])),
                                    " ")
                      regionCount ==
                          Len(structureSeries[specialDimensions.regionDimensionIndex + 1].values)
                      values ==
                          [r \in 1..regionCount |->
                             LET key == LookupKey(dimensionIndices,
                                                  specialDimensions.regionDimensionIndex, r - 1)
                             IN IF key \in DOMAIN series THEN series[key] ELSE Null]
                  IN TableColumn(dimensionName, values, uniqueValue)]]

\* Map the active concepts into arrays of arrays.
ActiveIndices(parent) ==
    Filter(range(Len(parent.items)), [i \in 1..Len(parent.items) |-> parent.items[i].isActive])

calculateActiveConceptValues(concepts) ==
    [c \in 1..Len(concepts) |-> ActiveIndices(concepts[c])]

\* TableColumn.sumValues: the element-wise sum of the columns' values; a null
\* counts as zero, and the sum of nulls only is null.
sumValues(columns) ==
    IF Len(columns) = 0 THEN <<>>
    ELSE [r \in 1..Len(columns[1].values) |->
            LET cells == [c \in 1..Len(columns) |->
                            IF r <= Len(columns[c].values) THEN columns[c].values[r] ELSE Null]
            IN IF \A c \in 1..Len(columns) : cells[c] = Null THEN Null
               ELSE SumOf([c \in 1..Len(columns) |-> IF cells[c] = Null THEN 0 ELSE cells[c]])]

\* Array.prototype.slice(begin, end), for 0 <= begin.
Slice(arr, begin, end) ==
    SubSeq(arr, begin + 1, IF end > Len(arr) THEN Len(arr) ELSE end)

buildTotalColumns(item) ==
    LET activeConceptValues == calculateActiveConceptValues(item.concepts)
        activeCombinations == arrayProduct(activeConceptValues)
        stringifiedCombinations ==
            [i \in 1..Len(item.combinations) |-> JoinNumbers(item.combinations[i], ",")]
        indicesIntoCombinations ==
            [i \in 1..Len(activeCombinations) |->
                IndexOf(stringifiedCombinations, JoinNumbers(activeCombinations[i], ","))]
        valueColumns == Slice(item.columns, 1, Len(item.combinations) + 1)
        includedColumns ==
            Filter(valueColumns,
                   [i \in 1..Len(valueColumns) |-> IndexOf(indicesIntoCombinations, i - 1) >= 0])
    IN IF Len(activeConceptValues) = 0 THEN <<>>
       ELSE << TableColumn("Total selected", sumValues(includedColumns), TRUE) >>


(***************************************************************************)
(* URLs: the path as its '/'-separated segments, and the search portion.   *)
(***************************************************************************)
Url(path, search) == [isDefined |-> TRUE, path |-> path, search |-> search]

UndefinedUrl == [isDefined |-> FALSE, path |-> <<>>, search |-> ""]

\* The positions of the '/data/' components of the URL.
DataComponents(item) ==
    { i \in 2..(Len(item.url.path) - 1) : item.url.path[i] = item.dataUrlComponent }

Max(S) == CHOOSE x \in S : \A y \in S : y <= x
Min(S) == CHOOSE x \in S : \A y \in S : x <= y

\* Returns undefined for a URL that holds the data, and the dataflow URL for a
\* URL that names only the dataset.
getDataflowUrl(item) ==
    IF DataComponents(item) = {} THEN UndefinedUrl
    ELSE LET dataUrlIndex == Max(DataComponents(item))
             suffix == SubSeq(item.url.path, dataUrlIndex + 1, Len(item.url.path))
         IN IF Len(suffix) >= 2
               /\ ~(Len(suffix) = 2 /\ suffix[2] = "" /\ item.url.search = "")
            THEN UndefinedUrl
            ELSE Url([item.url.path EXCEPT ![Min(DataComponents(item))] = item.dataflowUrlComponent],
                     item.url.search)

\* Strip off the search portion of the URL.
cleanUrl(url) == Url(url.path, "")

cleanAndProxyUrl(item, url) == cleanUrl(url)

\* url + '/' (unless it ends with one) + dimensionRequestString + '/all'.
AppendRequest(url, dimensionRequestString) ==
    IF url.search # ""
    THEN Url(url.path, url.search \o "/" \o dimensionRequestString \o "/all")
    ELSE IF Len(url.path) > 0 /\ url.path[Len(url.path)] = ""
    THEN Url(SubSeq(url.path, 1, Len(url.path) - 1) \o <<dimensionRequestString, "all">>, "")
    ELSE Url(url.path \o <<dimensionRequestString, "all">>, "")

(***************************************************************************)
(* The concepts, and the reaction to a change of the active concepts.      *)
(***************************************************************************)
\* [threw, value]: the dimension request string, eg. "BD_2+BD_4.LGA_2013..A".
\* activeConceptValues[nextConceptIndex++] of a concept that does not exist is
\* undefined, and its map throws; theseIds[activeIndex] of an id that does not
\* exist is undefined, and joins as the empty string.
RECURSIVE activeDimensionValuesFrom(_, _, _, _, _)
activeDimensionValuesFrom(item, nonTimeDimensionIds, dimensionIndex, nextConceptIndex, acc) ==
    IF dimensionIndex >= Len(nonTimeDimensionIds) THEN [threw |-> FALSE, value |-> acc]
    ELSE LET theseIds == nonTimeDimensionIds[dimensionIndex + 1]
             activeConceptValues == calculateActiveConceptValues(item.concepts)
         IN IF dimensionIndex = item.specialDimensions.regionDimensionIndex
            THEN activeDimensionValuesFrom(item, nonTimeDimensionIds, dimensionIndex + 1,
                                           nextConceptIndex, Append(acc, <<"">>))
            ELSE IF Len(theseIds) = 1
            THEN activeDimensionValuesFrom(item, nonTimeDimensionIds, dimensionIndex + 1,
                                           nextConceptIndex, Append(acc, theseIds))
            ELSE IF nextConceptIndex >= Len(activeConceptValues)
            THEN [threw |-> TRUE, value |-> acc]
            ELSE activeDimensionValuesFrom(item, nonTimeDimensionIds, dimensionIndex + 1,
                    nextConceptIndex + 1,
                    Append(acc,
                        LET active == activeConceptValues[nextConceptIndex + 1]
                        IN [a \in 1..Len(active) |->
                              IF active[a] < Len(theseIds) THEN theseIds[active[a] + 1] ELSE ""]))

calculateDimensionRequestString(item) ==
    LET activeDimensionValues ==
            activeDimensionValuesFrom(item,
                NonTimeDimensions(item, item.dimensionInfo.ids, HoleNames), 0, 0, <<>>)
    IN IF activeDimensionValues.threw THEN [threw |-> TRUE, value |-> ""]
       ELSE [threw |-> FALSE,
             value |-> Join([d \in 1..Len(activeDimensionValues.value) |->
                               Join(activeDimensionValues.value[d], "+")], ".")]

\* Sets the tableStructure's columns to the new columns.
updateColumns(item, newColumns) == [item EXCEPT !.columns = newColumns]

\* What a handler did: the item it leaves, the fetches it started, whether it
\* threw, and the number of notifications of the activeConcepts subscription.
Outcome(item, fetches, threw, notifications) ==
    [item |-> item, fetches |-> fetches, threw |-> threw, notifications |-> notifications]

\* A fetch: its kind, the URL handed to loadJson, and what started it.
Fetch(kind, url, cause) == [kind |-> kind, url |-> url, cause |-> cause]

\* The synchronous part of loadAndBuildTable: the item it leaves.
startLoadAndBuildTable(item) == [item EXCEPT !.isLoading = TRUE]

\* recomputeTotal, keeping one column fewer in front of the total.
recomputeTotalShort(item) ==
    IF ~item.combinationsDefined THEN Outcome(item, <<>>, TRUE, 1)
    ELSE LET columns == Slice(item.columns, 0, Len(item.combinations))
         IN IF Len(columns) > 0
            THEN Outcome(updateColumns(item, columns \o buildTotalColumns(item)), <<>>, FALSE, 1)
            ELSE Outcome(item, <<>>, FALSE, 1)

\* changedActiveItems when all the data is already here: just update the
\* total columns.
recomputeTotal(item) ==
    IF ~item.combinationsDefined THEN Outcome(item, <<>>, TRUE, 1)
    ELSE LET columns == Slice(item.columns, 0, Len(item.combinations) + 1)
         IN IF Len(columns) > 0
            THEN Outcome(updateColumns(item, columns \o buildTotalColumns(item)), <<>>, FALSE, 1)
            ELSE Outcome(item, <<>>, FALSE, 1)

\* downloadData, loading the dataflow again instead of the data.
downloadDataflow(item) ==
    Outcome(item, << Fetch("dataflow", cleanAndProxyUrl(item, item.dataflowUrl), "selection") >>,
            FALSE, 1)

\* changedActiveItems when the item has a dataflow URL: download the data and
\* build the appropriate table.  The URL built from the dimension request
\* string is overwritten by the item's URL before it is used.
downloadData(item) ==
    LET dimensionRequestString == calculateDimensionRequestString(item)
        built == AppendRequest(item.url, dimensionRequestString.value)
        url == item.url
    IN IF dimensionRequestString.threw THEN Outcome(item, <<>>, TRUE, 1)
       ELSE Outcome(startLoadAndBuildTable(item),
                    << Fetch("data", cleanAndProxyUrl(item, url), "selection") >>,
                    FALSE, 1)

\* changedActiveItems, downloading the data whatever the URL of the item.
changedActiveItemsDownloading(item) == downloadData(item)

\* changedActiveItems, downloading the data only until a table exists.
changedActiveItemsOnceLoaded(item) ==
    IF ~item.dataflowUrl.isDefined \/ Len(item.columns) > 0
    THEN recomputeTotal(item)
    ELSE downloadData(item)

\* Called when the active concepts change.
changedActiveItems(item) ==
    IF ~item.dataflowUrl.isDefined THEN recomputeTotal(item) ELSE downloadData(item)

\* The value of the activeConcepts property is an array (TRUE) or undefined.
activeConceptsDefined(concepts) == Len(concepts) > 0

\* An assignment to item._concepts: the subscription to activeConcepts is
\* notified unless the property was undefined and stays undefined.
assignConcepts(item, concepts) ==
    LET assigned == [item EXCEPT !.concepts = concepts]
    IN IF activeConceptsDefined(item.concepts) \/ activeConceptsDefined(concepts)
       THEN changedActiveItems(assigned)
       ELSE Outcome(assigned, <<>>, FALSE, 0)

\* Build out the concepts, and store the mapping (item.combinations) from the
\* concepts to the table columns.
setConceptsAndCombinations(item, shownDimensionCombinations) ==
    LET values == item.dimensionInfo.values
        nonTrivialFilter(arr) ==
            [i \in 1..Len(arr) |-> values[i] # HoleValues /\ Len(values[i]) > 1]
        throws == \E c \in 1..Len(shownDimensionCombinations.values) :
                     \E i \in 1..Len(shownDimensionCombinations.values[c]) :
                        i > Len(values) \/ values[i] = HoleValues
        combinations == [c \in 1..Len(shownDimensionCombinations.values) |->
                            Filter(shownDimensionCombinations.values[c],
                                   nonTrivialFilter(shownDimensionCombinations.values[c]))]
        nonTrivialDimensionNames == Filter(item.dimensionInfo.dimensionNames,
                                          nonTrivialFilter(item.dimensionInfo.dimensionNames))
        nonTrivialNames == Filter(item.dimensionInfo.names, nonTrivialFilter(item.dimensionInfo.names))
        concepts == [c \in 1..Len(nonTrivialDimensionNames) |->
                       [name |-> nonTrivialDimensionNames[c],
                        items |-> [v \in 1..Len(nonTrivialNames[c]) |->
                                     [name |-> nonTrivialNames[c][v], isActive |-> TRUE]]]]
    IN IF throws THEN Outcome(item, <<>>, TRUE, 0)
       ELSE assignConcepts([item EXCEPT !.combinations = combinations,
                                        !.combinationsDefined = TRUE], concepts)


(***************************************************************************)
(* The continuations of the two fetches.                                   *)
(***************************************************************************)
\* loadDataflowThen, going on without a region dimension.
loadDataflowThenWithoutRegion(item, structureSeries) ==
    LET specialDimensions == calculateSpecialDimensions(item, structureSeries)
        resolved == [item EXCEPT !.specialDimensions = specialDimensions]
        dimensionInfo == calculateShownDimensionNamesAndValues(structureSeries, specialDimensions)
        decoded == [resolved EXCEPT !.dimensionInfo = dimensionInfo]
    IN IF dimensionInfo.threw THEN Outcome(resolved, <<>>, TRUE, 0)
       ELSE setConceptsAndCombinations(decoded, calculateShownDimensionCombinations(decoded))

\* The continuation of loadJson in loadDataflow, with the catalogue
\* json.structure.dimensions.observation.
loadDataflowThen(item, structureSeries) ==
    LET specialDimensions == calculateSpecialDimensions(item, structureSeries)
        resolved == [item EXCEPT !.specialDimensions = specialDimensions]
        dimensionInfo == calculateShownDimensionNamesAndValues(structureSeries, specialDimensions)
        decoded == [resolved EXCEPT !.dimensionInfo = dimensionInfo]
    IN IF specialDimensions.regionDimensionIndex = Undefined
       THEN Outcome(resolved, <<>>, FALSE, 0)
       ELSE IF dimensionInfo.threw THEN Outcome(resolved, <<>>, TRUE, 0)
       ELSE setConceptsAndCombinations(decoded, calculateShownDimensionCombinations(decoded))

\* The columns of loadAndBuildTable, once the item holds its dimensions and
\* its combinations.
buildTable(outcome, shownDimensionCombinations, structureSeries, series) ==
    LET item == outcome.item
        regionColumn == buildRegionColumn(item, structureSeries)
        valueColumns == buildValueColumns(shownDimensionCombinations, structureSeries, series,
                                          item.specialDimensions)
        withColumns == [item EXCEPT !.columns = <<regionColumn.column>> \o valueColumns.columns]
        totalColumns == buildTotalColumns(withColumns)
    IN IF regionColumn.threw \/ valueColumns.threw
       THEN [outcome EXCEPT !.threw = TRUE]
       ELSE [outcome EXCEPT !.item = updateColumns(withColumns, withColumns.columns \o totalColumns)]

\* The region columns the region-resolution service recognises.
RecognisedRegionColumns ==
    { "lga_code_2013", "lga_code", "sa4_code", "ste_au_code_2011" }

\* RegionMapping.loadRegionDetails: the details of the region column, or
\* undefined (FALSE) if the table has no column with a recognised name.
loadRegionDetails(item) ==
    \E i \in 1..Len(item.columns) : item.columns[i].name \in RecognisedRegionColumns

\* The continuations of loadJson in loadAndBuildTable, with the catalogue
\* json.structure.dimensions.series and the observations json.dataSets[0].series.
loadAndBuildTableThen(item, structureSeries, series) ==
    LET specialDimensions ==
            IF ~item.specialDimensions.isDefined
            THEN calculateSpecialDimensions(item, structureSeries)
            ELSE item.specialDimensions
        resolved == [item EXCEPT !.specialDimensions = specialDimensions]
        dimensionInfo ==
            IF ~item.dimensionInfo.isDefined
            THEN calculateShownDimensionNamesAndValues(structureSeries, specialDimensions)
            ELSE item.dimensionInfo
        decoded == [resolved EXCEPT !.dimensionInfo = dimensionInfo]
        shownDimensionCombinations == calculateShownDimensionCombinations(decoded)
        bridged ==
            IF ~decoded.combinationsDefined
            THEN setConceptsAndCombinations(decoded, shownDimensionCombinations)
            ELSE Outcome(decoded, <<>>, FALSE, 0)
        built == buildTable(bridged, shownDimensionCombinations, structureSeries, series)
    IN IF specialDimensions.regionDimensionIndex = Undefined
       THEN Outcome(resolved, <<>>, FALSE, 0)
       ELSE IF dimensionInfo.threw THEN Outcome(resolved, <<>>, TRUE, 0)
       ELSE IF bridged.threw THEN bridged
       ELSE IF built.threw THEN built
       ELSE IF loadRegionDetails(built.item) THEN [built EXCEPT !.item.isLoading = FALSE]
       ELSE built

(***************************************************************************)
(* The state: the catalog item, the server, the fetches.                   *)
(***************************************************************************)
VARIABLES
    item,        \* the fields of the SdmxJsonCatalogItem
    server,      \* the catalogue and the observations the server holds
    issued,      \* every fetch started so far, in the order of the loadJson calls
    pending,     \* the indices in issued of the fetches that have not resolved
    state,       \* UNINITIALIZED, METADATA_ONLY or DATA_LOADED
    toggles,     \* the number of toggles of a selection item so far
    exceptions   \* the handlers that threw

vars == <<item, server, issued, pending, state, toggles, exceptions>>

\* The URLs of a catalog item: a dataset only (with and without a trailing
\* '/'), a dataset with a filter expression, a data file.
Urls ==
    { Url(<<"host", "data", "DS">>, ""),
      Url(<<"host", "data", "DS", "">>, ""),
      Url(<<"host", "data", "DS", "F", "all">>, "startTime=2013"),
      Url(<<"host", "file.json">>, "") }

\* The item after its constructor.
NewItem(url) ==
    [url |-> url,
     dataflowUrl |-> UndefinedUrl,
     dataUrlComponent |-> UndefinedName,
     dataflowUrlComponent |-> UndefinedName,
     regionTypeDimensionId |-> UndefinedName,
     regionDimensionId |-> UndefinedName,
     frequencyDimensionId |-> UndefinedName,
     timePeriodDimensionId |-> UndefinedName,
     regionType |-> UndefinedName,
     specialDimensions |-> UndefinedSpecialDimensions,
     dimensionInfo |-> UndefinedDimensionInfo,
     combinations |-> <<>>,
     combinationsDefined |-> FALSE,
     concepts |-> <<>>,
     columns |-> <<>>,
     isLoading |-> FALSE]

Init ==
    /\ \E url \in Urls : item = NewItem(url)
    /\ \E structureSeries \in Catalogues : \E series \in SeriesMaps(structureSeries) :
          server = [structureSeries |-> structureSeries, series |-> series]
    /\ issued = <<>>
    /\ pending = {}
    /\ state = "UNINITIALIZED"
    /\ toggles = 0
    /\ exceptions = {}

defaultValue(a, b) == IF a = UndefinedName THEN b ELSE a

\* The effect of a handler's outcome on the state.
Apply(outcome, handler, nextState) ==
    /\ Len(issued) + Len(outcome.fetches) <= MaxFetches
    /\ item' = outcome.item
    /\ issued' = issued \o outcome.fetches
    /\ exceptions' = IF outcome.threw THEN exceptions \cup {handler} ELSE exceptions
    /\ state' = IF outcome.threw THEN state ELSE nextState

\* SdmxJsonCatalogItem.prototype._load
Load ==
    /\ issued = <<>>
    /\ LET withDefaults ==
               [item EXCEPT
                  !.regionTypeDimensionId = defaultValue(@, "REGIONTYPE"),
                  !.regionDimensionId = defaultValue(@, "REGION"),
                  !.frequencyDimensionId = defaultValue(@, "FREQUENCY"),
                  !.timePeriodDimensionId = defaultValue(@, "TIME_PERIOD"),
                  !.dataUrlComponent = defaultValue(@, "data"),
                  !.dataflowUrlComponent = defaultValue(@, "dataflow"),
                  !.columns = <<>>]
           loading == [withDefaults EXCEPT !.dataflowUrl = getDataflowUrl(withDefaults)]
       IN IF loading.dataflowUrl.isDefined
          THEN Apply(Outcome(loading,
                             << Fetch("dataflow", cleanAndProxyUrl(loading, loading.dataflowUrl),
                                      "load") >>, FALSE, 0),
                     "load", state)
          ELSE Apply(Outcome(startLoadAndBuildTable(loading),
                             << Fetch("data", cleanAndProxyUrl(loading, loading.url),
                                      "load") >>, FALSE, 0),
                     "load", state)
    /\ pending' = {1}
    /\ UNCHANGED <<server, toggles>>

\* The dataflow fetch resolves.
DataflowLoaded(id) ==
    /\ id \in pending
    /\ issued[id].kind = "dataflow"
    /\ LET outcome == loadDataflowThen(item, server.structureSeries)
       IN /\ Apply(outcome, "loadDataflow",
                   IF outcome.item.combinationsDefined THEN "METADATA_ONLY" ELSE state)
          /\ pending' = (pending \ {id}) \cup (Len(issued) + 1)..(Len(issued) + Len(outcome.fetches))
    /\ UNCHANGED <<server, toggles>>

\* A data fetch resolves.
DataLoaded(id) ==
    /\ id \in pending
    /\ issued[id].kind = "data"
    /\ LET outcome == loadAndBuildTableThen(item, server.structureSeries, server.series)
       IN /\ Apply(outcome, "loadAndBuildTable",
                   IF Len(outcome.item.columns) > 0 THEN "DATA_LOADED" ELSE state)
          /\ pending' = (pending \ {id}) \cup (Len(issued) + 1)..(Len(issued) + Len(outcome.fetches))
    /\ UNCHANGED <<server, toggles>>

\* A fetch fails: its continuations do not run.
FetchFailed(id) ==
    /\ id \in pending
    /\ pending' = pending \ {id}
    /\ UNCHANGED <<item, server, issued, state, toggles, exceptions>>

\* Toggle, with the fetch of the newer selection taking the place of the
\* fetches in flight.
ToggleCancelling(c, i) ==
    /\ toggles < MaxToggles
    /\ LET toggled == [item EXCEPT !.concepts[c].items[i].isActive = ~@]
           outcome == changedActiveItems(toggled)
       IN /\ Apply(outcome, "toggle", state)
          /\ pending' = IF outcome.fetches = <<>> THEN pending
                        ELSE (Len(issued) + 1)..(Len(issued) + Len(outcome.fetches))
    /\ toggles' = toggles + 1
    /\ UNCHANGED server

\* The user toggles child i of concept c: activeConcepts changes, and its
\* subscription calls changedActiveItems.
Toggle(c, i) ==
    /\ toggles < MaxToggles
    /\ LET toggled == [item EXCEPT !.concepts[c].items[i].isActive = ~@]
           outcome == changedActiveItems(toggled)
       IN /\ Apply(outcome, "toggle", state)
          /\ pending' = pending \cup (Len(issued) + 1)..(Len(issued) + Len(outcome.fetches))
    /\ toggles' = toggles + 1
    /\ UNCHANGED server

Next ==
    \/ Load
    \/ \E id \in 1..MaxFetches : DataflowLoaded(id)
    \/ \E id \in 1..MaxFetches : DataLoaded(id)
    \/ \E id \in 1..MaxFetches : FetchFailed(id)
    \/ \E c \in 1..Len(item.concepts) : \E i \in 1..Len(item.concepts[c].items) : Toggle(c, i)

Spec == Init /\ [][Next]_vars

(***************************************************************************)
(* The two topologies, and the properties of the total column.             *)
(***************************************************************************)
\* The item has been loaded from a URL that names a data file or carries a
\* filter expression: no dataflow URL.
DirectData == Len(issued) > 0 /\ ~item.dataflowUrl.isDefined

\* The item has been loaded from a URL that names a dataset only.
MetadataFirst == Len(issued) > 0 /\ item.dataflowUrl.isDefined

TotalName == "Total selected"

\* The active combinations: one active child index per concept, in every way.
ActiveCombinationSet ==
    { t \in [1..Len(item.concepts) -> 0..MaxValues] :
        \A c \in 1..Len(item.concepts) :
            /\ t[c] + 1 <= Len(item.concepts[c].items)
            /\ item.concepts[c].items[t[c] + 1].isActive }

\* Whether the registry's sub-tuple of value column j is an active combination.
IsSelected(j) ==
    \E t \in ActiveCombinationSet :
        /\ Len(item.combinations[j]) = Len(item.concepts)
        /\ \A c \in 1..Len(item.concepts) : item.combinations[j][c] = t[c]

\* The value columns of the table (after the region column), selected ones only.
SelectedValueColumns ==
    Filter(SubSeq(item.columns, 2, Len(item.combinations) + 1),
           [j \in 1..Len(item.combinations) |-> IsSelected(j)])

\* C1: in the direct-data topology, after any toggle, the column 'Total
\* selected' is the element-wise sum of exactly the value columns whose
\* registry sub-tuple is one of the active combinations.
C1_TotalIsSumOfSelected ==
    (DirectData /\ state = "DATA_LOADED" /\ toggles > 0) =>
        /\ Len(item.columns) = Len(item.combinations) + 2
        /\ item.columns[Len(item.columns)].name = TotalName
        /\ item.columns[Len(item.columns)].values = sumValues(SelectedValueColumns)
\* A step in which the user toggles a selection item.
ToggleStep == toggles' = toggles + 1

\* C2: a recomputation of the total alone never alters the region column or
\* a value column: each keeps its name, its values and its position, and
\* every column after them is a total column.
C2_TotalOnlyRecompute ==
    [][(DirectData /\ ToggleStep) =>
          /\ \A p \in 1..Len(item.columns) :
                item.columns[p].name # TotalName =>
                    /\ p <= Len(item'.columns)
                    /\ item'.columns[p].name = item.columns[p].name
                    /\ item'.columns[p].isActive = item.columns[p].isActive
                    /\ item'.columns[p].values = item.columns[p].values
          /\ \A p \in 1..Len(item'.columns) :
                (p > Len(item.columns) \/ item.columns[p].name = TotalName)
                    => item'.columns[p].name = TotalName]_vars

\* A direct-data table of a region column, two value columns at least and a
\* total, after two toggles, with one value column left in the total.
C2_Witness ==
    /\ DirectData
    /\ toggles = 2
    /\ Len(item.columns) >= 4
    /\ item.columns[1].name # TotalName
    /\ item.columns[Len(item.columns)].name = TotalName
    /\ Len(SelectedValueColumns) = 1

\* C3: in the direct-data topology a selection change never starts a fetch:
\* the only fetch ever issued is the data fetch of the initial load.
C3_DirectDataFetchesOnce ==
    DirectData =>
        /\ Len(issued) = 1
        /\ issued[1].kind = "data"
        /\ issued[1].cause = "load"

\* A direct-data item whose table is built and whose selection was toggled
\* as often as the bound allows.
C3_Witness ==
    /\ DirectData
    /\ state = "DATA_LOADED"
    /\ toggles = MaxToggles
    /\ pending = {}

FilteredUrl(it) ==
    cleanUrl(AppendRequest(it.url, calculateDimensionRequestString(it).value))

\* C5: in the metadata-first topology a selection change in METADATA_ONLY
\* fetches the item URL followed by '/', the dimension request string and
\* '/all', not the unfiltered item URL.
C5_FetchesFilteredUrl ==
    [][(MetadataFirst /\ state = "METADATA_ONLY" /\ ToggleStep /\ Len(issued') = Len(issued) + 1) =>
          /\ issued'[Len(issued')].url = FilteredUrl(item')
          /\ issued'[Len(issued')].url # cleanUrl(item.url)]_vars
(***************************************************************************)
(* The table the catalogue and the observations of the server call for.    *)
(***************************************************************************)
\* The keyPosition of the dimension with this id in the server's catalogue,
\* or Undefined.
KeyPositionOf(dimensionId) ==
    IF \E i \in 1..Len(server.structureSeries) : server.structureSeries[i].id = dimensionId
    THEN server.structureSeries[CHOOSE i \in 1..Len(server.structureSeries) :
                                    server.structureSeries[i].id = dimensionId].keyPosition
    ELSE Undefined

RegionKeyPosition == KeyPositionOf("REGION")
TimeKeyPosition == KeyPositionOf("TIME_PERIOD")

\* The values of the region dimension, in the order of the catalogue.
RegionValues == EntryAt(server.structureSeries, RegionKeyPosition).values

\* The combinations: one index per keyPosition, the region and the time-period
\* dimensions held at index 0, the first dimension varying slowest.
ExpectedCombinations ==
    arrayProduct([k \in 1..Len(server.structureSeries) |->
                    IF k - 1 = RegionKeyPosition \/ k - 1 = TimeKeyPosition
                    THEN <<0>>
                    ELSE range(Len(EntryAt(server.structureSeries, k - 1).values))])

\* The key of combination j for region index r: r at the region's keyPosition,
\* the combination's index at every other keyPosition, joined with ':'.
ExpectedKey(j, r) ==
    JoinNumbers([ExpectedCombinations[j] EXCEPT ![RegionKeyPosition + 1] = r], ":")

ExpectedCell(j, r) ==
    IF ExpectedKey(j, r) \in DOMAIN server.series
    THEN server.series[ExpectedKey(j, r)]
    ELSE Null

\* The name of the value column of combination j: the names of its values in
\* the dimensions with more than one value, or 'Value' for a single column.
ExpectedName(j) ==
    IF Len(ExpectedCombinations) <= 1 THEN "Value"
    ELSE LET names == [k \in 1..Len(server.structureSeries) |->
                         LET entry == EntryAt(server.structureSeries, k - 1)
                         IN IF k - 1 = RegionKeyPosition \/ k - 1 = TimeKeyPosition
                               \/ Len(entry.values) <= 1
                            THEN ""
                            ELSE entry.values[ExpectedCombinations[j][k] + 1].name]
         IN Join(Filter(names, [k \in 1..Len(names) |-> names[k] # ""]), " ")

\* The table has been built from a data response.
TableBuilt == state = "DATA_LOADED"

\* C6: the cell of a value column for region index r is read from the key
\* with r at the region's keyPosition and the combination's index at every
\* other keyPosition, in keyPosition order, wherever the region and the
\* time-period dimensions are placed.
C6_CellsReadFromFullKey ==
    TableBuilt =>
        \A j \in 1..Len(ExpectedCombinations) :
            /\ j + 1 <= Len(item.columns)
            /\ \A r \in 1..Len(item.columns[j + 1].values) :
                  r <= Len(RegionValues) => item.columns[j + 1].values[r] = ExpectedCell(j, r - 1)

\* C7: a key the observations lack gives a null cell and never an exception:
\* every value column has exactly as many cells as the region dimension has
\* values, each of them null or an observation of the server.
C7_AbsentKeyIsNull ==
    /\ "loadAndBuildTable" \notin exceptions
    /\ TableBuilt =>
         \A j \in 1..Len(ExpectedCombinations) :
            /\ j + 1 <= Len(item.columns)
            /\ Len(item.columns[j + 1].values) = Len(RegionValues)
            /\ \A r \in 1..Len(item.columns[j + 1].values) :
                  \/ item.columns[j + 1].values[r] = Null
                  \/ \E key \in DOMAIN server.series :
                        server.series[key] = item.columns[j + 1].values[r]

\* C8: the table is the region column (the region ids in the order of the
\* catalogue), one value column per combination in the order of enumeration,
\* and one trailing column 'Total selected' exactly when there is a concept;
\* selection changes never accumulate total columns.
C8_TableShape ==
    TableBuilt =>
        LET n == Len(ExpectedCombinations)
            hasTotal == Len(item.concepts) >= 1
        IN /\ Len(item.columns) = 1 + n + (IF hasTotal THEN 1 ELSE 0)
           /\ item.columns[1].name # TotalName
           /\ item.columns[1].values = [r \in 1..Len(RegionValues) |-> RegionValues[r].id]
           /\ \A j \in 1..n : item.columns[j + 1].name = ExpectedName(j)
           /\ hasTotal => item.columns[n + 2].name = TotalName
\* The item holds the decoded catalogue.
Decoded == item.dimensionInfo.isDefined /\ ~item.dimensionInfo.threw

\* The number of indices each non-time dimension contributes to a
\* combination, in keyPosition order: one for the region dimension.
NonTimeLengths ==
    LET n == Len(server.structureSeries)
        lengths == [k \in 1..n |->
                      IF k - 1 = RegionKeyPosition THEN 1
                      ELSE Len(EntryAt(server.structureSeries, k - 1).values)]
    IN Filter(lengths, [k \in 1..n |-> k - 1 # TimeKeyPosition])

RECURSIVE ProductOf(_)
ProductOf(nums) == IF nums = <<>> THEN 1 ELSE Head(nums) * ProductOf(Tail(nums))

\* a comes before b in lexicographic order.
LexLess(a, b) ==
    /\ Len(a) = Len(b)
    /\ \E d \in 1..Len(a) :
          /\ a[d] < b[d]
          /\ \A e \in 1..(d - 1) : a[e] = b[e]

\* C9: the combinations are the cartesian product of the index lists of the
\* non-time dimensions, the region held at one index: as many as the product
\* of the lengths, one index per non-time dimension, in strictly increasing
\* lexicographic order (so none is repeated); lengths 1, 1, 3, 2 give the six
\* tuples from [0,0,0,0] to [0,0,2,1].
C9_CombinationsAreProduct ==
    /\ arrayProduct(<<range(1), range(1), range(3), range(2)>>)
          = << <<0, 0, 0, 0>>, <<0, 0, 0, 1>>, <<0, 0, 1, 0>>,
               <<0, 0, 1, 1>>, <<0, 0, 2, 0>>, <<0, 0, 2, 1>> >>
    /\ Decoded =>
         LET combinations == calculateShownDimensionCombinations(item).values
         IN /\ Len(combinations) = ProductOf(NonTimeLengths)
            /\ \A j \in 1..Len(combinations) :
                  /\ Len(combinations[j]) = Len(NonTimeLengths)
                  /\ \A d \in 1..Len(NonTimeLengths) :
                        combinations[j][d] \in 0..(NonTimeLengths[d] - 1)
            /\ \A j \in 1..(Len(combinations) - 1) :
                  LexLess(combinations[j], combinations[j + 1])

\* A decoded catalogue with a time-period dimension and a region dimension of
\* several values each, and as many combinations as the third dimension has
\* values.
C9_Witness ==
    /\ Decoded
    /\ TimeKeyPosition # Undefined
    /\ Len(EntryAt(server.structureSeries, TimeKeyPosition).values) = MaxValues
    /\ Len(RegionValues) = MaxValues
    /\ Len(calculateShownDimensionCombinations(item).values) = MaxValues

\* The catalogue is decoded into arrays of its length, slot i holding the id,
\* the name and the value ids of the entry whose keyPosition is i.
DecodedByKeyPosition ==
    LET n == Len(server.structureSeries)
        info == item.dimensionInfo
    IN /\ Len(info.values) = n
       /\ Len(info.names) = n
       /\ Len(info.ids) = n
       /\ Len(info.dimensionNames) = n
       /\ Len(info.dimensionIds) = n
       /\ \A k \in 1..n :
             LET entry == EntryAt(server.structureSeries, k - 1)
             IN /\ info.dimensionIds[k] = entry.id
                /\ info.dimensionNames[k] = entry.name
                /\ info.ids[k] = [v \in 1..Len(entry.values) |-> entry.values[v].id]

\* C10 (as claimed): the arrays of the decoder have the length of the
\* catalogue, slot i holds the data of the entry whose keyPosition is i, and
\* values[i] has as many indices as that entry has values.
C10_ValuesHaveEntryLength ==
    Decoded =>
        /\ DecodedByKeyPosition
        /\ \A k \in 1..Len(server.structureSeries) :
              Len(item.dimensionInfo.values[k])
                 = Len(EntryAt(server.structureSeries, k - 1).values)

\* C10 (amended): the arrays of the decoder have the length of the catalogue,
\* slot i holds the data of the entry whose keyPosition is i, and values[i] is
\* the range of that entry's values, except for the region and the
\* time-period dimensions, whose values[i] is the single index 0 and whose
\* names are blank.
C10_ValuesExceptSpecial ==
    Decoded =>
        /\ DecodedByKeyPosition
        /\ \A k \in 1..Len(server.structureSeries) :
              LET entry == EntryAt(server.structureSeries, k - 1)
                  special == k - 1 = RegionKeyPosition \/ k - 1 = TimeKeyPosition
              IN /\ item.dimensionInfo.values[k] =
                       (IF special THEN <<0>> ELSE range(Len(entry.values)))
                 /\ item.dimensionInfo.names[k] =
                       (IF special \/ Len(entry.values) <= 1 THEN <<"">>
                        ELSE [v \in 1..Len(entry.values) |-> entry.values[v].name])

\* A decoded catalogue whose array order differs from its keyPositions, with
\* a region and a time-period dimension of several values each.
C10_Witness ==
    /\ Decoded
    /\ \E i \in 1..Len(server.structureSeries) : server.structureSeries[i].keyPosition # i - 1
    /\ TimeKeyPosition # Undefined
    /\ Len(RegionValues) = MaxValues
    /\ Len(EntryAt(server.structureSeries, TimeKeyPosition).values) = MaxValues
(***************************************************************************)
(* The name of the region column.                                          *)
(***************************************************************************)
\* The region column names of the ids a catalogue can hand to
\* getRegionColumnName: lower case, '_code' before the last underscore, or at
\* the end of an id without underscore.
ExpectedRegionColumnName(id) ==
    CASE id = "LGA_2013" -> "lga_code_2013"
      [] id = "LGA" -> "lga_code"
      [] id = "SA4" -> "sa4_code"
      [] id = "STE_AU_2011" -> "ste_au_code_2011"
      [] id = "TIME_PERIOD" -> "time_code_period"
      [] id = "BD_2" -> "bd_code_2"
      [] id = "REGION" -> "region_code"
      [] id = "REGIONTYPE" -> "regiontype_code"
      [] id = "MEASURE" -> "measure_code"
      [] id = "SEX" -> "sex_code"
      [] id = "R1" -> "r1_code"
      [] id = "M" -> "m_code"
      [] id = "2011" -> "2011_code"

RegionTypeIds ==
    { "LGA_2013", "LGA", "SA4", "STE_AU_2011", "TIME_PERIOD", "BD_2", "REGION",
      "REGIONTYPE", "MEASURE", "SEX", "R1", "M", "2011" }

\* C11: the name of the region column is the region-type id in lower case
\* with '_code' before its last underscore-delimited suffix, or at its end if
\* it has no underscore: 'LGA_2013' gives 'lga_code_2013', 'LGA' gives
\* 'lga_code', 'SA4' gives 'sa4_code', and of several underscores only the
\* last is affected; the region column of a built table has that name.
C11_RegionColumnName ==
    /\ \A id \in RegionTypeIds : getRegionColumnName(id) = ExpectedRegionColumnName(id)
    /\ TableBuilt =>
          item.columns[1].name =
              ExpectedRegionColumnName(getRegionTypeId(item, server.structureSeries).value)

\* A table whose region column is named after the value LGA_2013 of the
\* region-type dimension of the catalogue.
C11_Witness ==
    /\ TableBuilt
    /\ KeyPositionOf("REGIONTYPE") # Undefined
    /\ getRegionTypeId(item, server.structureSeries).value = "LGA_2013"
    /\ item.columns[1].name = "lga_code_2013"
(***************************************************************************)
(* The dimension request string.                                           *)
(***************************************************************************)
\* The concept built from a dimension: the one that carries its name.
ConceptOf(entry) ==
    IF \E c \in 1..Len(item.concepts) : item.concepts[c].name = entry.name
    THEN item.concepts[CHOOSE c \in 1..Len(item.concepts) : item.concepts[c].name = entry.name]
    ELSE [name |-> entry.name, items |-> <<>>]

\* The token of the dimension at keyPosition k: empty for the region
\* dimension, the id of a single value, or the '+'-joined ids of the active
\* children of the dimension's concept.
ExpectedToken(k) ==
    LET entry == EntryAt(server.structureSeries, k)
        concept == ConceptOf(entry)
    IN IF k = RegionKeyPosition THEN ""
       ELSE IF Len(entry.values) = 1 THEN entry.values[1].id
       ELSE LET active == ActiveIndices(concept)
            IN Join([a \in 1..Len(active) |->
                       IF active[a] < Len(entry.values)
                       THEN entry.values[active[a] + 1].id
                       ELSE UndefinedName], "+")

\* One token per dimension other than the time period, in keyPosition order,
\* joined with '.'.
ExpectedRequestString ==
    LET positions == range(Len(server.structureSeries))
        nonTime == Filter(positions, [k \in 1..Len(positions) |-> positions[k] # TimeKeyPosition])
    IN Join([d \in 1..Len(nonTime) |-> ExpectedToken(nonTime[d])], ".")

\* The concepts of a metadata-first item have been built from the catalogue,
\* and changedActiveItems has computed the request string of their selection.
ConceptsBuilt ==
    MetadataFirst /\ item.combinationsDefined /\ activeConceptsDefined(item.concepts)

\* C12: the dimension request string has one token per dimension other than
\* the time period, in keyPosition order, joined with '.': empty for the
\* region dimension, the id of a dimension's single value, or the '+'-joined
\* ids of the active children of the dimension's concept, wherever the region
\* and the time-period dimensions are placed.
C12_RequestString ==
    ConceptsBuilt =>
        /\ ~calculateDimensionRequestString(item).threw
        /\ calculateDimensionRequestString(item).value = ExpectedRequestString
(***************************************************************************)
(* A catalogue without the region dimension.                               *)
(***************************************************************************)
\* A response has been handled: the special dimensions have been resolved.
Resolved == item.specialDimensions.isDefined

\* C13: if no entry of the catalogue has the configured region id, the
\* pipeline halts silently in either topology: no handler throws, the table
\* has no column, no concept and no combination is built, and no fetch
\* follows the one of the load.
C13_NoRegionHaltsSilently ==
    RegionKeyPosition = Undefined =>
        /\ exceptions = {}
        /\ item.columns = <<>>
        /\ item.concepts = <<>>
        /\ ~item.combinationsDefined
        /\ item.combinations = <<>>
        /\ state = "UNINITIALIZED"
        /\ Len(issued) <= 1

\* The dataflow response of a catalogue without region dimension has been
\* handled by a metadata-first item.
C13_Witness ==
    /\ MetadataFirst
    /\ RegionKeyPosition = Undefined
    /\ Resolved
    /\ item.specialDimensions.regionDimensionIndex = Undefined
    /\ pending = {}
(***************************************************************************)
(* Overlapping fetches.                                                    *)
(***************************************************************************)
\* The outcome of a data response on an item without table.
Rebuilt ==
    loadAndBuildTableThen([item EXCEPT !.columns = <<>>], server.structureSeries, server.series)

C15_OneFetchInFlight == Cardinality(pending) <= 1
(***************************************************************************)
(* Failed fetches.                                                         *)
(***************************************************************************)
\* No data response has been handled: no table, no exception of its
\* continuation, and no special dimensions resolved from it.
NoDataResponseHandled ==
    /\ state # "DATA_LOADED"
    /\ "loadAndBuildTable" \notin exceptions
    /\ DirectData => ~Resolved

\* Every data fetch started so far has failed.
DataFetchesFailed ==
    /\ \E id \in 1..Len(issued) : issued[id].kind = "data"
    /\ pending = {}
    /\ NoDataResponseHandled

\* C16: a failed fetch is not retried and leaves the item as it was before
\* the fetch was started: once every data fetch started so far has failed,
\* the item is not loading, has no table, and holds the concepts and the
\* combinations it had before; no fetch has been started by a failure.
C16_FailureLeavesPriorState ==
    DataFetchesFailed =>
        /\ ~item.isLoading
        /\ item.columns = <<>>
        /\ DirectData => /\ item.concepts = <<>>
                         /\ ~item.combinationsDefined
                         /\ ~item.dimensionInfo.isDefined
                         /\ Len(issued) = 1
        /\ MetadataFirst => Len(issued) <= 2 + toggles
(***************************************************************************)
(* The catalogue fetch.                                                    *)
(***************************************************************************)
\* The indices in issued of the catalogue (dataflow) fetches.
DataflowFetches == { id \in 1..Len(issued) : issued[id].kind = "dataflow" }

\* C17: the catalogue is fetched at most once in the life of an item: only
\* the load of a metadata-first item fetches it, as its first fetch, and no
\* selection change and no response starts another catalogue fetch.
C17_CatalogueFetchedOnce ==
    /\ DataflowFetches \subseteq {1}
    /\ DataflowFetches # {} => MetadataFirst /\ issued[1].cause = "load"
    /\ DirectData => DataflowFetches = {}

\* A metadata-first item after its catalogue fetch, the data fetches of the
\* concepts and of a toggle, and a data response.
C17_Witness ==
    /\ MetadataFirst
    /\ DataflowFetches = {1}
    /\ Len(issued) = MaxFetches
    /\ toggles > 0
    /\ state = "DATA_LOADED"
(***************************************************************************)
(* The region column of a catalogue in any array order.                    *)
(***************************************************************************)
RegionTypeKeyPosition == KeyPositionOf("REGIONTYPE")

\* The catalogue lists its dimensions in keyPosition order.
ArrayOrderIsKeyOrder ==
    \A i \in 1..Len(server.structureSeries) : server.structureSeries[i].keyPosition = i - 1

\* C18: the region column holds the value ids of the dimension with the
\* region id, and is named after the first value of the dimension with the
\* region-type id, also when the keyPosition of a dimension is not its
\* position in the array of the catalogue.
C18_RegionColumnByKeyPosition ==
    TableBuilt =>
        /\ item.columns[1].values = [r \in 1..Len(RegionValues) |-> RegionValues[r].id]
        /\ RegionTypeKeyPosition # Undefined =>
              item.columns[1].name =
                  ExpectedRegionColumnName(
                      EntryAt(server.structureSeries, RegionTypeKeyPosition).values[1].id)
(***************************************************************************)
(* The special dimensions of a catalogue that repeats an id.               *)
(***************************************************************************)
RoleIds == { "REGION", "REGIONTYPE", "TIME_PERIOD", "MEASURE" }

\* Catalogues of three dimensions with any ids, repeated ones included, any
\* permutation of the keyPositions, and one value or MaxValues values each.
CataloguesWithRepeats ==
    { [i \in 1..3 |-> DimensionDescriptor(ids[i], keyPositions[i], counts[i])] :
        ids \in [1..3 -> RoleIds],
        keyPositions \in KeyPositionAssignments(3),
        counts \in [1..3 -> {1, MaxValues}] }

\* An item configured with the ids of its special dimensions, and a server
\* with any of the catalogues.
ResolverInit ==
    /\ \E url \in Urls :
          item = [NewItem(url) EXCEPT !.regionDimensionId = "REGION",
                                      !.regionTypeDimensionId = "REGIONTYPE",
                                      !.timePeriodDimensionId = "TIME_PERIOD"]
    /\ \E structureSeries \in CataloguesWithRepeats :
          server = [structureSeries |-> structureSeries, series |-> <<>>]
    /\ issued = <<>>
    /\ pending = {}
    /\ state = "UNINITIALIZED"
    /\ toggles = 0
    /\ exceptions = {}

\* item._specialDimensions = calculateSpecialDimensions(item, structureSeries)
ResolveSpecialDimensions ==
    /\ ~item.specialDimensions.isDefined
    /\ item' = [item EXCEPT !.specialDimensions =
                                calculateSpecialDimensions(item, server.structureSeries)]
    /\ UNCHANGED <<server, issued, pending, state, toggles, exceptions>>

ResolverNext == ResolveSpecialDimensions

ResolverSpec == ResolverInit /\ [][ResolverNext]_vars

\* The first entry of the catalogue, in array order, with this id: its
\* position in the array, or 0 if there is none.
FirstEntryWith(dimensionId) ==
    LET matches == { i \in 1..Len(server.structureSeries) :
                        server.structureSeries[i].id = dimensionId }
    IN IF matches = {} THEN 0
       ELSE CHOOSE i \in matches : \A j \in matches : i <= j

FirstKeyPositionOf(dimensionId) ==
    IF FirstEntryWith(dimensionId) = 0 THEN Undefined
    ELSE server.structureSeries[FirstEntryWith(dimensionId)].keyPosition

\* C19: for each role (region, region type, time period) the resolver records
\* the keyPosition of the first entry, in array order, whose id is the
\* configured id; later entries with the same id change neither the index
\* nor regionTypeCount.
C19_FirstMatchWins ==
    Resolved =>
        /\ item.specialDimensions.regionDimensionIndex = FirstKeyPositionOf(item.regionDimensionId)
        /\ item.specialDimensions.regionTypeDimensionIndex =
              FirstKeyPositionOf(item.regionTypeDimensionId)
        /\ item.specialDimensions.timePeriodDimensionIndex =
              FirstKeyPositionOf(item.timePeriodDimensionId)
        /\ item.specialDimensions.regionTypeCount =
              IF FirstEntryWith(item.regionTypeDimensionId) = 0 THEN 0
              ELSE Len(server.structureSeries[FirstEntryWith(item.regionTypeDimensionId)].values)
(***************************************************************************)
(* The total column of an empty selection.                                 *)
(***************************************************************************)
\* Some concept has no active child: the list of active combinations is empty.
NoActiveCombination ==
    \E c \in 1..Len(item.concepts) : ActiveIndices(item.concepts[c]) = <<>>

\* C20: if the list of active combinations is empty, no total column is
\* produced: after such a selection change the table is the region column
\* and the value columns only.
C20_NoTotalWithoutSelection ==
    (DirectData /\ TableBuilt /\ NoActiveCombination) =>
        /\ Len(item.columns) = Len(item.combinations) + 1
        /\ \A p \in 1..Len(item.columns) : item.columns[p].name # TotalName
(***************************************************************************)
(* The arrays of the dimension info.                                       *)
(***************************************************************************)
\* C21: in the dimension info of the item values[dim], names[dim] and
\* ids[dim] have the same length for every dimension dim, the region and the
\* time-period dimensions and the dimensions with one value included.
C21_SameLengthPerDimension ==
    Decoded =>
        \A dim \in 1..Len(item.dimensionInfo.values) :
            /\ Len(item.dimensionInfo.values[dim]) = Len(item.dimensionInfo.names[dim])
            /\ Len(item.dimensionInfo.values[dim]) = Len(item.dimensionInfo.ids[dim])
(***************************************************************************)
(* The dimension info of a catalogue that leaves a keyPosition out.        *)
(***************************************************************************)
\* keyPositions of n entries among 0..n, no two the same: unless they are
\* 0..n-1, one position below n is left out.
KeyPositionsWithGap(n) ==
    { f \in [1..n -> 0..n] : \A i, j \in 1..n : f[i] = f[j] => i = j }

CataloguesWithGap ==
    UNION { { [i \in 1..Len(ids) |-> DimensionDescriptor(ids[i], keyPositions[i], counts[i])] :
                keyPositions \in KeyPositionsWithGap(Len(ids)),
                counts \in [1..Len(ids) -> {1, MaxValues}] } :
            ids \in IdSequences }

DecoderInit ==
    /\ \E url \in Urls :
          item = [NewItem(url) EXCEPT !.regionDimensionId = "REGION",
                                      !.regionTypeDimensionId = "REGIONTYPE",
                                      !.timePeriodDimensionId = "TIME_PERIOD"]
    /\ \E structureSeries \in CataloguesWithGap :
          server = [structureSeries |-> structureSeries, series |-> <<>>]
    /\ issued = <<>>
    /\ pending = {}
    /\ state = "UNINITIALIZED"
    /\ toggles = 0
    /\ exceptions = {}

\* item._specialDimensions = calculateSpecialDimensions(item, structureSeries);
\* item._dimensionInfo = calculateShownDimensionNamesAndValues(structureSeries,
\* item._specialDimensions)
DecodeCatalogue ==
    /\ ~item.dimensionInfo.isDefined
    /\ LET specialDimensions == calculateSpecialDimensions(item, server.structureSeries)
       IN item' = [item EXCEPT
                     !.specialDimensions = specialDimensions,
                     !.dimensionInfo =
                         calculateShownDimensionNamesAndValues(server.structureSeries,
                                                               specialDimensions)]
    /\ UNCHANGED <<server, issued, pending, state, toggles, exceptions>>

DecoderNext == DecodeCatalogue

DecoderSpec == DecoderInit /\ [][DecoderNext]_vars

\* The positions up to the highest keyPosition that no entry of the catalogue
\* has.
MissingKeyPositions ==
    { k \in 0..Len(server.structureSeries) :
        /\ \A i \in 1..Len(server.structureSeries) : server.structureSeries[i].keyPosition # k
        /\ \E i \in 1..Len(server.structureSeries) : server.structureSeries[i].keyPosition > k }

\* The slots left out are dimensions without value, and so there is no
\* combination.
MissingSlotsAreEmpty ==
    /\ ~item.dimensionInfo.threw
    /\ \A k \in MissingKeyPositions :
          /\ k < Len(item.dimensionInfo.values)
          /\ item.dimensionInfo.values[k + 1] = <<>>
          /\ item.dimensionInfo.names[k + 1] = <<>>
    /\ calculateShownDimensionCombinations(item).values = <<>>

\* C22: when the catalogue leaves a keyPosition out, the decoder does not
\* throw, reports the first position left out, and the slot of that position
\* is a dimension of length zero for what follows.
C22_MissingSlotReported ==
    (item.dimensionInfo.isDefined /\ MissingKeyPositions # {}) =>
        /\ MissingSlotsAreEmpty
        /\ item.dimensionInfo.missing \in MissingKeyPositions
        /\ \A k \in MissingKeyPositions : item.dimensionInfo.missing <= k
(***************************************************************************)
(* The combinations of the concepts and the columns of the table.          *)
(***************************************************************************)
\* The dimension at keyPosition k has more than one value to choose from: it
\* is not the region or the time-period dimension, and has several values.
NonTrivial(k) ==
    /\ k # RegionKeyPosition
    /\ k # TimeKeyPosition
    /\ Len(EntryAt(server.structureSeries, k).values) > 1

\* Combination j without the slots of the dimensions with a single index.
ExpectedSubTuple(j) ==
    Filter(ExpectedCombinations[j],
           [k \in 1..Len(ExpectedCombinations[j]) |-> NonTrivial(k - 1)])

\* The number of columns of the table other than the region column and the
\* total columns.
ValueColumnCount ==
    Cardinality({ p \in 2..Len(item.columns) : item.columns[p].name # TotalName })

\* C23: whenever the table is not empty, item.combinations has as many
\* entries as the table has value columns, and entry i is the combination of
\* value column i without the slots of the single-valued dimensions.
C23_RegistryAlignedWithColumns ==
    TableBuilt =>
        /\ Len(item.combinations) = ValueColumnCount
        /\ Len(item.combinations) = Len(ExpectedCombinations)
        /\ \A j \in 1..Len(item.combinations) : item.combinations[j] = ExpectedSubTuple(j)
(***************************************************************************)
(* The concepts.                                                           *)
(***************************************************************************)
\* The names of the concepts and of their children.
ConceptNames ==
    [c \in 1..Len(item.concepts) |->
        [name |-> item.concepts[c].name,
         items |-> [v \in 1..Len(item.concepts[c].items) |-> item.concepts[c].items[v].name]]]

\* One concept per dimension, in keyPosition order, named after it, with one
\* child per value in the order of the values: multiValued[k] tells whether
\* the dimension at keyPosition k - 1 gets a concept.
ConceptNamesOf(multiValued) ==
    LET all == [k \in 1..Len(server.structureSeries) |->
                  LET entry == EntryAt(server.structureSeries, k - 1)
                  IN [name |-> entry.name,
                      items |-> [v \in 1..Len(entry.values) |-> entry.values[v].name]]]
    IN Filter(all, multiValued)

AllChildrenActive ==
    \A c \in 1..Len(item.concepts) :
        \A v \in 1..Len(item.concepts[c].items) : item.concepts[c].items[v].isActive

\* C24 (as claimed): the concepts are one per dimension with more than one
\* value, in keyPosition order and named after the dimension, each with one
\* child per value of the dimension in value order, all active at first.
C24_ConceptPerMultiValuedDimension ==
    item.combinationsDefined =>
        /\ ConceptNames =
              ConceptNamesOf([k \in 1..Len(server.structureSeries) |->
                                 Len(EntryAt(server.structureSeries, k - 1).values) > 1])
        /\ toggles = 0 => AllChildrenActive

\* C24 (amended): the concepts are one per dimension with more than one value
\* other than the region and the time-period dimensions, in keyPosition order
\* and named after the dimension, each with one child per value of the
\* dimension in value order, all active at first.
C24_ConceptPerNonTrivialDimension ==
    item.combinationsDefined =>
        /\ ConceptNames =
              ConceptNamesOf([k \in 1..Len(server.structureSeries) |-> NonTrivial(k - 1)])
        /\ toggles = 0 => AllChildrenActive

\* The concepts of a catalogue that is not in keyPosition order, whose region
\* dimension has several values and gets no concept.
C24_Witness ==
    /\ item.combinationsDefined
    /\ toggles = 0
    /\ ~ArrayOrderIsKeyOrder
    /\ Len(RegionValues) = MaxValues
    /\ Len(item.concepts) = 2
    /\ AllChildrenActive
(***************************************************************************)
(* The dimensions that are not enumerated.                                 *)
(***************************************************************************)
\* The number of values of each dimension that is enumerated, in keyPosition
\* order: enumerated[k] tells whether the dimension at keyPosition k - 1 is.
EnumeratedLengths(enumerated) ==
    Filter([k \in 1..Len(server.structureSeries) |->
               Len(EntryAt(server.structureSeries, k - 1).values)],
           enumerated)

\* The names of the dimensions that are not enumerated.
HiddenNames(enumerated) ==
    { EntryAt(server.structureSeries, k - 1).name :
        k \in { h \in 1..Len(server.structureSeries) : ~enumerated[h] } }

\* No concept for a dimension that is not enumerated, and one combination and
\* one value column per choice of a value in each dimension that is.
EnumeratesOnly(enumerated) ==
    /\ \A c \in 1..Len(item.concepts) : item.concepts[c].name \notin HiddenNames(enumerated)
    /\ Len(item.combinations) = ProductOf(EnumeratedLengths(enumerated))
    /\ TableBuilt => ValueColumnCount = ProductOf(EnumeratedLengths(enumerated))

ActiveColumns == { p \in 1..Len(item.columns) : item.columns[p].isActive }

DataFetches == { id \in 1..Len(issued) : issued[id].kind = "data" }

\* The notifications of the activeConcepts subscription so far: one when the
\* concepts are assigned, and one for every toggle.
Notifications == (IF activeConceptsDefined(item.concepts) THEN 1 ELSE 0) + toggles

\* C27: in the metadata-first topology the concepts and the combinations are
\* built when the catalogue loads, and a data response leaves both as they
\* are: the selection survives the reload, the response notifies nobody and
\* starts no fetch, and there are as many data fetches as notifications of a
\* selection change.
C27_ResponseKeepsConcepts ==
    [][MetadataFirst' =>
          /\ \A id \in pending :
                DataLoaded(id) =>
                    /\ item'.concepts = item.concepts
                    /\ item'.combinations = item.combinations
                    /\ item'.combinationsDefined
                    /\ issued' = issued
          /\ Cardinality(DataFetches') = Notifications']_vars
(***************************************************************************)
(* From the catalogue to the table, without the user.                      *)
(***************************************************************************)
\* A fetch in flight resolves or fails in the end.
FetchSettles ==
    \E id \in 1..MaxFetches : FetchFailed(id) \/ DataflowLoaded(id) \/ DataLoaded(id)

LiveSpec == Spec /\ WF_vars(FetchSettles)

\* The dataflow response of a catalogue with a region dimension has been
\* handled by a metadata-first item.
CatalogueLoaded == MetadataFirst /\ Resolved /\ RegionKeyPosition # Undefined

\* C28: in the metadata-first topology, for every catalogue with a region
\* dimension, the load of the catalogue is followed, without any action of
\* the user, by a data fetch, and the response of a data fetch brings the
\* item to DATA_LOADED with a table that is not empty.
C28_CatalogueLeadsToTable ==
    /\ CatalogueLoaded ~> (DataFetches # {})
    /\ [][\A id \in pending :
             (MetadataFirst /\ DataLoaded(id)) =>
                 /\ state' = "DATA_LOADED"
                 /\ item'.columns # <<>>]_vars
(***************************************************************************)
(* The registry of combinations and the concepts.                          *)
(***************************************************************************)
\* Every tuple with one child index (counted from 0) per concept, in the
\* order of the concepts.
ChildIndexTuples ==
    { t \in [1..Len(item.concepts) -> 0..(MaxValues - 1)] :
        \A c \in 1..Len(item.concepts) : t[c] < Len(item.concepts[c].items) }

\* C29: once the registry is built, its entries are pairwise distinct, each
\* has one index per concept in the order of the concepts, and every tuple
\* of child indices occurs in it, wherever the time-period dimension is
\* placed among the keyPositions.
C29_RegistryIsProductOfConcepts ==
    item.combinationsDefined =>
        /\ \A j \in 1..Len(item.combinations) :
              Len(item.combinations[j]) = Len(item.concepts)
        /\ \A i, j \in 1..Len(item.combinations) :
              i # j => item.combinations[i] # item.combinations[j]
        /\ { item.combinations[j] : j \in 1..Len(item.combinations) } = ChildIndexTuples
(***************************************************************************)
(* The total column and the current selection.                             *)
(***************************************************************************)
\* The columns of the table that are neither the region column nor a total.
ValueColumns ==
    Filter(item.columns,
           [p \in 1..Len(item.columns) |-> p > 1 /\ item.columns[p].name # TotalName])

\* Value column j, of the given sub-tuple, is selected by the children that
\* are active now: each concept's child at the column's index is active.
SelectedNow(subTuple) ==
    /\ Len(subTuple) = Len(item.concepts)
    /\ \A c \in 1..Len(item.concepts) :
          /\ subTuple[c] + 1 <= Len(item.concepts[c].items)
          /\ item.concepts[c].items[subTuple[c] + 1].isActive

\* The value columns selected now.
SelectedValueColumnsNow ==
    { j \in 1..Len(ExpectedCombinations) :
        \E subTuple \in {ExpectedSubTuple(j)} : SelectedNow(subTuple) }

\* The total of the table is the sum of the value columns selected now.
TotalIsCurrent ==
    \E valueColumns \in {ValueColumns} : \E selected \in {SelectedValueColumnsNow} :
      \E chosen \in {Filter(valueColumns, [j \in 1..Len(valueColumns) |-> j \in selected])} :
        \E total \in {sumValues(chosen)} :
          /\ item.concepts # <<>> =>
                \E p \in 1..Len(item.columns) : item.columns[p].name = TotalName
          /\ \A p \in 1..Len(item.columns) :
                item.columns[p].name = TotalName => item.columns[p].values = total

\* C30: in either topology, when a toggle or a data response leaves no
\* fetch in flight, the total column of the table is the sum of the value
\* columns selected by the children that are active now, not the total of an
\* earlier selection.
C30_TotalFollowsSelection ==
    [][(/\ pending' = {}
        /\ TableBuilt'
        /\ ToggleStep \/ \E id \in pending : DataLoaded(id)) => TotalIsCurrent']_vars

====
